---- MODULE Spec2Model ----
(***************************************************************************)
(* Model of the HUEK250 hydrogeology attribute extraction                  *)
(* (huek250/src/extract_functions.py and huek250/src/run.py).              *)
(*                                                                         *)
(* Geometry is discretised: the plane is a finite set of cells, each with  *)
(* an area; a polygon or a catchment is a set of cells, the intersection   *)
(* of two geometries is the intersection of their cell sets and the area   *)
(* of a geometry is the sum of the areas of its cells.                     *)
(*                                                                         *)
(* Floating point numbers are modelled as exact rationals [n, d] in lowest *)
(* terms; NaN is the value 0/0.  Rounding error of IEEE arithmetic (about  *)
(* 1E-14 on the percentages) is not modelled.                              *)
(*                                                                         *)
(* Column names are sequences of segments whose concatenation is the       *)
(* column name of the code, cut so that str.startswith(prefix) is "the     *)
(* first segment is prefix" and "sub in name" is "sub is a segment".       *)
(* Umlauts of the category labels are transliterated (ae, ss, ue).         *)
(***************************************************************************)
EXTENDS Integers, Sequences, FiniteSets, TLC

VARIABLES huek, catchments, toolname, pc, reprojected, i, catchment, dfs, df,
          df_all, result, csv, errorlog, error, run, prev

vars == <<huek, catchments, toolname, pc, reprojected, i, catchment, dfs, df,
          df_all, result, csv, errorlog, error, run, prev>>

---------------------------------------------------------------------------
(* Bounds of the model *)

\* longest catchment set given to the aggregator
MaxCatchments == 2

\* number of times the aggregator is called on the same arguments
MaxRuns == 2

---------------------------------------------------------------------------
(* Numbers *)

Abs(x) == IF x < 0 THEN -x ELSE x

RECURSIVE GCD(_, _)
GCD(a, b) == IF b = 0 THEN a ELSE GCD(b, a % b)

\* the float64 not-a-number
NaN == [n |-> 0, d |-> 0]

IsNaN(x) == x.d = 0

\* the number n/d, d > 0
Frac(n, d) == LET g == GCD(Abs(n), d) IN [n |-> n \div g, d |-> d \div g]

Zero == Frac(0, 1)

FAdd(x, y) == Frac(x.n * y.d + y.n * x.d, x.d * y.d)

\* numpy float64 division a / b of non-negative areas, then * 100
PercentOf(a, b) ==
    IF b = 0 THEN NaN   \* 0.0 / 0.0
    ELSE Frac(100 * a, b)

---------------------------------------------------------------------------
(* Geometry *)

\* The cells of the plane and their areas.  Cell 5 is covered by no polygon
\* of the base map (a gap of the map).
Cells == 1..5

CellArea == <<1, 799, 1200, 498, 300>>

RECURSIVE Area(_)
Area(geometry) ==
    IF geometry = {} THEN 0
    ELSE LET c == CHOOSE x \in geometry : TRUE
         IN CellArea[c] + Area(geometry \ {c})

---------------------------------------------------------------------------
(* The category vocabularies: column name and label of the base map *)

Col(name, label) == [name |-> name, label |-> label]

Gewaesser == "Gewaesser"

KeineAngaben == "keine Angaben"

KfColumns ==
    << Col(<<"kf", "_very_high_perc">>, "sehr hoch (>1E-2)"),
       Col(<<"kf", "_high_perc">>, "hoch (>1E-3 - 1E-2)"),
       Col(<<"kf", "_medium_perc">>, "mittel (>1E-4 - 1E-3)"),
       Col(<<"kf", "_moderate_perc">>, "maessig (>1E-5 - 1E-4)"),
       Col(<<"kf", "_low_perc">>, "gering (>1E-7 - 1E-5)"),
       Col(<<"kf", "_very_low_perc">>, "sehr gering (>1E-9 - 1E-7)"),
       Col(<<"kf", "_extremely_low_perc">>, "aeusserst gering (<1E-9)"),
       Col(<<"kf", "_very_high_to_high_perc">>, "sehr hoch bis hoch (>1E-3)"),
       Col(<<"kf", "_medium_to_moderate_perc">>, "mittel bis maessig (>1E-5 - 1E-3)"),
       Col(<<"kf", "_low_to_extremely_low_perc">>, "gering bis aeusserst gering (<1E-5)"),
       Col(<<"kf", "_highly_variable_perc">>, "stark variabel"),
       Col(<<"kf", "_moderate_to_low_perc">>, "maessig bis gering (>1E-6 - 1E-4)"),
       Col(<<"kf", "_", "waterbody", "_perc">>, Gewaesser),
       Col(<<"kf", "_", "no_data", "_perc">>, KeineAngaben) >>

ChColumns ==
    << Col(<<"aqui", "tard", "_perc">>, "Grundwasser-Geringleiter"),
       Col(<<"aqui", "fer", "_perc">>, "Grundwasser-Leiter"),
       Col(<<"aqui", "fer", "_aquitard_mixed_perc">>, "Grundwasser-Leiter/Geringleiter"),
       Col(<<"aqui", "fer", "_", "waterbody", "_perc">>, Gewaesser),
       Col(<<"aqui", "fer", "_", "no_data", "_perc">>, KeineAngaben) >>

HaColumns ==
    << Col(<<"cavity", "_fissure_perc">>, "Kluft"),
       Col(<<"cavity", "_pores_perc">>, "Poren"),
       Col(<<"cavity", "_fissure_karst_perc">>, "Kluft/Karst"),
       Col(<<"cavity", "_fissure_pores_perc">>, "Kluft/Poren"),
       Col(<<"cavity", "_", "waterbody", "_perc">>, Gewaesser),
       Col(<<"cavity", "_", "no_data", "_perc">>, KeineAngaben) >>

VfColumns ==
    << Col(<<"consolidation", "_solid_rock_perc">>, "Festgestein"),
       Col(<<"consolidation", "_unconsolidated_rock_perc">>, "Lockergestein"),
       Col(<<"consolidation", "_", "waterbody", "_perc">>, Gewaesser),
       Col(<<"consolidation", "_", "no_data", "_perc">>, KeineAngaben) >>

GaColumns ==
    << Col(<<"rocktype", "_sediment_perc">>, "Sediment"),
       Col(<<"rocktype", "_metamorphite_perc">>, "Metamorphit"),
       Col(<<"rocktype", "_magmatite_perc">>, "Magmatit"),
       Col(<<"rocktype", "_", "waterbody", "_perc">>, Gewaesser),
       Col(<<"rocktype", "_", "no_data", "_perc">>, KeineAngaben) >>

GcColumns ==
    << Col(<<"geochemical_rocktype", "_silicate_perc">>, "silikatisch"),
       Col(<<"geochemical_rocktype", "_silicate_carbonatic_perc">>, "silikatisch/karbonatisch"),
       Col(<<"geochemical_rocktype", "_carbonatic_perc">>, "karbonatisch"),
       Col(<<"geochemical_rocktype", "_sulfatic_perc">>, "sulfatisch"),
       Col(<<"geochemical_rocktype", "_silicate_organic_components_perc">>, "silikatisch mit organischen Anteilen"),
       Col(<<"geochemical_rocktype", "_anthropogenically_modified_through_filling_perc">>, "durch Auffuellung anthropogen veraendert"),
       Col(<<"geochemical_rocktype", "_sulfatic_halitic_perc">>, "sulfatisch/halitisch"),
       Col(<<"geochemical_rocktype", "_halitic_perc">>, "halitisch"),
       Col(<<"geochemical_rocktype", "_", "waterbody", "_perc">>, Gewaesser),
       Col(<<"geochemical_rocktype", "_", "no_data", "_perc">>, KeineAngaben) >>

\* the six extractors, named as the functions extract_<f>_from_huek
Fields == {"kf", "ch", "ha", "vf", "ga", "gc"}

\* the attribute of the base map each extractor reads
BezOf(f) ==
    CASE f = "kf" -> "kf_bez"
      [] f = "ch" -> "LChar_bez"
      [] f = "ha" -> "HA_bez"
      [] f = "vf" -> "VF_bez"
      [] f = "ga" -> "GA_bez"
      [] f = "gc" -> "GC_bez"

ColumnsOf(f) ==
    CASE f = "kf" -> KfColumns
      [] f = "ch" -> ChColumns
      [] f = "ha" -> HaColumns
      [] f = "vf" -> VfColumns
      [] f = "ga" -> GaColumns
      [] f = "gc" -> GcColumns

\* PrefixOf with the whole first word of the aquifer columns as the category
PrefixWholeWord(f) ==
    CASE f = "kf" -> <<"kf">>
      [] f = "ch" -> <<"aqui", "fer">>
      [] f = "ha" -> <<"cavity">>
      [] f = "vf" -> <<"consolidation">>
      [] f = "ga" -> <<"rocktype">>
      [] f = "gc" -> <<"geochemical_rocktype">>

\* the category argument each extractor gives to check_extracted_values
PrefixOf(f) ==
    CASE f = "kf" -> <<"kf">>
      [] f = "ch" -> <<"aqui">>
      [] f = "ha" -> <<"cavity">>
      [] f = "vf" -> <<"consolidation">>
      [] f = "ga" -> <<"rocktype">>
      [] f = "gc" -> <<"geochemical_rocktype">>

---------------------------------------------------------------------------
(* Data frames: a row is [gauge_id, cols], cols a sequence of [name, val] *)

\* col.startswith(category), category a sequence of segments too
StartsWith(col, category) ==
    /\ Len(category) <= Len(col)
    /\ SubSeq(col, 1, Len(category)) = category

\* sub in col
Contains(col, sub) == \E k \in 1..Len(col) : col[k] = sub

\* df[[col for col in df.columns if col.startswith(category)]]
ColsStartingWith(cols, category) ==
    SelectSeq(cols, LAMBDA e : StartsWith(e.name, category))

\* [col for col in df.columns if sub in col], with their cells
ColsContaining(cols, sub) == SelectSeq(cols, LAMBDA e : Contains(e.name, sub))

\* df.drop(dropped, axis=1)
DropCols(cols, dropped) ==
    SelectSeq(cols, LAMBDA e : \A k \in 1..Len(dropped) : dropped[k].name /= e.name)

\* DataFrame.sum(axis=1) of one row: NaN cells are skipped (skipna), the
\* sum of no cell is 0
RECURSIVE SumCols(_)
SumCols(cols) ==
    IF cols = <<>> THEN Zero
    ELSE IF IsNaN(Head(cols).val) THEN SumCols(Tail(cols))
    ELSE FAdd(Head(cols).val, SumCols(Tail(cols)))

\* the distinct values of the cells of the row
ValueSet(cols) == {cols[k].val : k \in 1..Len(cols)}

---------------------------------------------------------------------------
(* check_extracted_values *)

\* desired of assert_almost_equal
Desired == 100

\* decimal of assert_almost_equal
Decimal == 1

\* numpy.testing.assert_almost_equal(actual, desired, decimal) raises:
\* a NaN actual differs from a finite desired; otherwise it raises iff
\* abs(desired - actual) >= 1.5 * 10 ** (-decimal)
AssertAlmostEqualRaises(actual, desired, decimal) ==
    \/ IsNaN(actual)
    \/ Abs(desired * actual.d - actual.n) * 10 * (10 ^ decimal)
          >= 15 * actual.d

\* sum of the columns that start with category
SumCategory(cols, category) ==
    SumCols(ColsStartingWith(cols, category))

\* CheckExtractedValuesRaises with decimal=0
CheckDecimalZero(cols, category) ==
    AssertAlmostEqualRaises(SumCategory(cols, category), Desired, 0)

\* CheckExtractedValuesRaises that raises on a sum above 100 only
CheckUpperBoundOnly(cols, category) ==
    LET s == SumCategory(cols, category)
    IN ~IsNaN(s) /\ s.n > Desired * s.d /\ AssertAlmostEqualRaises(s, Desired, Decimal)

\* TRUE iff check_extracted_values(df, category) raises AssertionError
CheckExtractedValuesRaises(cols, category) ==
    AssertAlmostEqualRaises(SumCategory(cols, category), Desired, Decimal)

---------------------------------------------------------------------------
(* The extractors *)

\* Clip that leaves the base map as it is
ClipNothing(map, geometry) == map

\* huek.clip(catchment): the polygons of the base map cut to the catchment,
\* those that do not meet it dropped
RECURSIVE Clip(_, _)
Clip(map, geometry) ==
    IF map = <<>> THEN <<>>
    ELSE LET p == Head(map)
             rest == Clip(Tail(map), geometry)
         IN IF p.geometry \cap geometry = {} THEN rest
            ELSE <<[p EXCEPT !.geometry = p.geometry \cap geometry]>> \o rest

\* clipped.area.sum()
RECURSIVE AreaSum(_)
AreaSum(polygons) ==
    IF polygons = <<>> THEN 0
    ELSE Area(Head(polygons).geometry) + AreaSum(Tail(polygons))

\* (clipped[clipped[bez] == label].area.sum() / clipped.area.sum()) * 100
CategoryPerc(clipped, bez, label) ==
    PercentOf(AreaSum(SelectSeq(clipped, LAMBDA p : p[bez] = label)),
              AreaSum(clipped))

\* the row an extractor builds before it checks it: clip, then one column
\* per category of the field, indexed by the identifier of the catchment
ExtractRow(f, map, c) ==
    LET clipped == Clip(map, c.geometry)
        columns == ColumnsOf(f)
    IN [gauge_id |-> c.id,
        cols |-> [k \in 1..Len(columns) |->
                    [name |-> columns[k].name,
                     val |-> CategoryPerc(clipped, BezOf(f), columns[k].label)]]]

\* TRUE iff the extractor of field f raises on its row
ExtractRaises(f, row) == CheckExtractedValuesRaises(row.cols, PrefixOf(f))

---------------------------------------------------------------------------
(* The aggregator: merge, collapse, round *)

\* the order of pd.concat([df_kf, df_ch, df_ha, df_vf, df_ga, df_gc], axis=1)
ConcatOrder == <<"kf", "ch", "ha", "vf", "ga", "gc">>

\* pd.concat(..., axis=1) of the six rows of one catchment
RECURSIVE ConcatCols(_, _)
ConcatCols(rows, order) ==
    IF order = <<>> THEN <<>>
    ELSE rows[Head(order)].cols \o ConcatCols(rows, Tail(order))

\* CollapseRaises that compares the first two columns only
CollapseComparesFirstTwo(cols, sub) ==
    LET found == ColsContaining(cols, sub)
    IN found[1].val /= found[2].val

\* TRUE iff  assert len(set(df[cols].values.flatten().tolist())) == 1  raises
CollapseRaises(cols, sub) == Cardinality(ValueSet(ColsContaining(cols, sub))) /= 1

\* Collapse that drops the columns and adds none
CollapseDropsOnly(cols, sub) == DropCols(cols, ColsContaining(cols, sub))

\* df[sub + "_perc"] = df[cols[0]]; df.drop(cols, axis=1, inplace=True)
Collapse(cols, sub) ==
    LET found == ColsContaining(cols, sub)
    IN DropCols(Append(cols, [name |-> <<sub, "_perc">>, val |-> found[1].val]),
                found)

\* decimals of df_all.round
Decimals == 2

\* numpy.round(x, decimals): rint(x * 10**decimals) / 10**decimals, rint
\* rounding halves to the even integer
Round(x, decimals) ==
    IF IsNaN(x) THEN NaN
    ELSE LET scale == 10 ^ decimals
             q == (x.n * scale) \div x.d
             r == (x.n * scale) % x.d
             k == IF 2 * r < x.d THEN q
                  ELSE IF 2 * r > x.d THEN q + 1
                  ELSE IF q % 2 = 0 THEN q ELSE q + 1
         IN Frac(k, scale)

RoundRow(row) ==
    [row EXCEPT !.cols = [k \in 1..Len(row.cols) |->
        [name |-> row.cols[k].name, val |-> Round(row.cols[k].val, Decimals)]]]

\* df_all.round(2)
RoundTable(table) == [k \in 1..Len(table) |-> RoundRow(table[k])]

---------------------------------------------------------------------------
(* Inputs *)

Attrs(kf, ch, ha, vf, ga, gc) ==
    [kf_bez |-> kf, LChar_bez |-> ch, HA_bez |-> ha, VF_bez |-> vf,
     GA_bez |-> ga, GC_bez |-> gc]

Unconsolidated ==
    Attrs("sehr hoch (>1E-2)", "Grundwasser-Leiter", "Poren", "Lockergestein",
          "Sediment", "silikatisch")

Solid ==
    Attrs("gering (>1E-7 - 1E-5)", "Grundwasser-Geringleiter", "Kluft",
          "Festgestein", "Magmatit", "karbonatisch")

Waterbody == Attrs(Gewaesser, Gewaesser, Gewaesser, Gewaesser, Gewaesser, Gewaesser)

NoData ==
    Attrs(KeineAngaben, KeineAngaben, KeineAngaben, KeineAngaben, KeineAngaben,
          KeineAngaben)

\* a label that is in no vocabulary
Unknown == "unbekannt"

\* attribute records of the small polygon: the regular ones, one with an
\* unknown label in one field, and two whose sentinel label is set in one
\* field only
SmallAttrs ==
    {Unconsolidated, Waterbody, NoData}
    \cup {[Unconsolidated EXCEPT ![BezOf(f)] = Unknown] : f \in Fields}
    \cup {[Unconsolidated EXCEPT !.kf_bez = Gewaesser],
          [Unconsolidated EXCEPT !.GC_bez = KeineAngaben]}

\* the base maps: three polygons on cells {1}, {2} and {3, 4}
BaseMaps ==
    {<<[geometry |-> {1}] @@ a1, [geometry |-> {2}] @@ a2, [geometry |-> {3, 4}] @@ a3>> :
        a1 \in SmallAttrs, a2 \in {Solid, Waterbody}, a3 \in {Unconsolidated, NoData}}

HuekCrs == "EPSG:25832"

\* the catchments a catchment set is drawn from
Catchment(id, geometry) == [id |-> id, geometry |-> geometry, crs |-> "EPSG:4326"]

CatchmentPool ==
    {Catchment("DE1", {1, 2}), Catchment("DE2", {3}), Catchment("DE3", {5}),
     Catchment("DE4", {1, 4, 5}), Catchment("DE5", {1, 2, 3})}

\* catchment sets of at most MaxCatchments catchments with distinct identifiers
CatchmentSets ==
    {cs \in UNION {[1..n -> CatchmentPool] : n \in 0..MaxCatchments} :
        \A j, k \in 1..Len(cs) : j /= k => cs[j].id /= cs[k].id}

ToolNames == {"", "hydrogeology_attributes_huek", "other_tool"}

\* the value of a local that is not bound
None == "None"

\* no AssertionError
NoError == [at |-> "", category |-> <<>>, sum |-> NaN]

\* a table that may not be there: <<>> when it is not, <<table>> when it is
NoTable == <<>>

Table(t) == <<t>>

---------------------------------------------------------------------------
(* State *)

\* huek, catchments : the arguments, as read by run.py
\* toolname         : TOOL_RUN, lower case
\* pc               : the statement that runs next
\* reprojected      : local catchments after to_crs
\* i                : position of the loop in reprojected
\* catchment        : the single catchment of the iteration
\* dfs              : df_kf, df_ch, df_ha, df_vf, df_ga, df_gc
\* df               : the merged row of the iteration
\* df_all           : the accumulator
\* result           : the table returned by the last call, NoTable before
\* csv              : /out/hydrogeology_attributes.csv, NoTable while not written
\* errorlog         : /out/error.log exists
\* error            : the AssertionError that ended the call, NoError if none
\* run, prev        : number of the call and outcome of the call before it

Init ==
    /\ huek \in BaseMaps
    /\ catchments \in CatchmentSets
    /\ toolname \in ToolNames
    /\ pc = "main"
    /\ reprojected = <<>>
    /\ i = 0
    /\ catchment = None
    /\ dfs = [f \in Fields |-> None]
    /\ df = None
    /\ df_all = <<>>
    /\ result = NoTable
    /\ csv = NoTable
    /\ errorlog = FALSE
    /\ error = NoError
    /\ run = 1
    /\ prev = None

\* run.py, toolname == "": ValueError
RunNoTool ==
    /\ pc = "main"
    /\ toolname = ""
    /\ pc' = "raised"
    /\ UNCHANGED <<huek, catchments, toolname, reprojected, i, catchment, dfs,
                   df, df_all, result, csv, errorlog, error, run, prev>>

\* run.py, any other toolname: the error log is written
RunInvalid ==
    /\ pc = "main"
    /\ toolname /= ""
    /\ toolname /= "hydrogeology_attributes_huek"
    /\ errorlog' = TRUE
    /\ pc' = "exit"
    /\ UNCHANGED <<huek, catchments, toolname, reprojected, i, catchment, dfs,
                   df, df_all, result, csv, error, run, prev>>

\* run.py, the tool is called
RunTool ==
    /\ pc = "main"
    /\ toolname = "hydrogeology_attributes_huek"
    /\ pc' = "call"
    /\ UNCHANGED <<huek, catchments, toolname, reprojected, i, catchment, dfs,
                   df, df_all, result, csv, errorlog, error, run, prev>>

\* catchments.to_crs(crs): a new frame, the region of each catchment kept
ToCrs(cs, crs) == [k \in 1..Len(cs) |-> [cs[k] EXCEPT !.crs = crs]]

\* EmptyFrame that keeps the accumulator of the call before
KeepFrame(old) == old

\* df_all = pd.DataFrame()
EmptyFrame(old) == <<>>

\* extract_hydrogeology_attributes_huek, up to the loop
Begin ==
    /\ pc = "call"
    /\ reprojected' = ToCrs(catchments, HuekCrs)
    /\ df_all' = EmptyFrame(df_all)
    /\ i' = 1
    /\ pc' = "loop"
    /\ UNCHANGED <<huek, catchments, toolname, catchment, dfs, df, result, csv,
                   errorlog, error, run, prev>>

\* for _, catchment in catchments.iterrows(): the next catchment, made a
\* GeoDataFrame of one row, or the end of the loop
LoopNext ==
    /\ pc = "loop"
    /\ IF i <= Len(reprojected)
       THEN /\ catchment' = [reprojected[i] EXCEPT !.crs = HuekCrs]
            /\ pc' = "ch"
       ELSE /\ pc' = "round"
            /\ UNCHANGED catchment
    /\ UNCHANGED <<huek, catchments, toolname, reprojected, i, dfs, df, df_all,
                   result, csv, errorlog, error, run, prev>>

\* one extractor called at pc = here: its row is kept and the call goes on
\* at next, or its check raises and the exception leaves the aggregator
Extract(f, here, next) ==
    /\ pc = here
    /\ LET row == ExtractRow(f, huek, catchment)
       IN IF ExtractRaises(f, row)
          THEN /\ pc' = "failed"
               /\ error' = [at |-> here, category |-> PrefixOf(f),
                            sum |-> SumCategory(row.cols, PrefixOf(f))]
               /\ UNCHANGED dfs
          ELSE /\ dfs' = [dfs EXCEPT ![f] = row]
               /\ pc' = next
               /\ UNCHANGED error
    /\ UNCHANGED <<huek, catchments, toolname, reprojected, i, catchment, df,
                   df_all, result, csv, errorlog, run, prev>>

extract_ch_from_huek == Extract("ch", "ch", "kf")

extract_kf_from_huek == Extract("kf", "kf", "ha")

extract_ha_from_huek == Extract("ha", "ha", "ga")

extract_ga_from_huek == Extract("ga", "ga", "vf")

extract_vf_from_huek == Extract("vf", "vf", "gc")

extract_gc_from_huek == Extract("gc", "gc", "concat")

\* df = pd.concat([df_kf, df_ch, df_ha, df_vf, df_ga, df_gc], axis=1)
Merge ==
    /\ pc = "concat"
    /\ df' = [gauge_id |-> dfs["kf"].gauge_id, cols |-> ConcatCols(dfs, ConcatOrder)]
    /\ pc' = "waterbody"
    /\ UNCHANGED <<huek, catchments, toolname, reprojected, i, catchment, dfs,
                   df_all, result, csv, errorlog, error, run, prev>>

\* the assertion on the columns of sub and their collapse into sub_perc
CollapseStep(sub, here, next) ==
    /\ pc = here
    /\ IF CollapseRaises(df.cols, sub)
       THEN /\ pc' = "failed"
            /\ error' = [at |-> here, category |-> <<sub>>, sum |-> NaN]
            /\ UNCHANGED df
       ELSE /\ df' = [df EXCEPT !.cols = Collapse(df.cols, sub)]
            /\ pc' = next
            /\ UNCHANGED error
    /\ UNCHANGED <<huek, catchments, toolname, reprojected, i, catchment, dfs,
                   df_all, result, csv, errorlog, run, prev>>

CollapseWaterbody == CollapseStep("waterbody", "waterbody", "no_data")

CollapseNoData == CollapseStep("no_data", "no_data", "append")

\* ConcatRows with the operands swapped
ConcatRowsSwapped(table, row) == <<row>> \o table

\* ConcatRows that keeps the new row only
ConcatRowsReplaces(table, row) == <<row>>

\* pd.concat([df_all, df], axis=0)
ConcatRows(table, row) == Append(table, row)

\* df_all = pd.concat([df_all, df], axis=0), end of the iteration
AppendRow ==
    /\ pc = "append"
    /\ df_all' = ConcatRows(df_all, df)
    /\ i' = i + 1
    /\ pc' = "loop"
    /\ UNCHANGED <<huek, catchments, toolname, reprojected, catchment, dfs, df,
                   result, csv, errorlog, error, run, prev>>

\* df_all = df_all.round(2); return df_all
RoundAndReturn ==
    /\ pc = "round"
    /\ df_all' = RoundTable(df_all)
    /\ result' = Table(RoundTable(df_all))
    /\ pc' = "returned"
    /\ UNCHANGED <<huek, catchments, toolname, reprojected, i, catchment, dfs,
                   df, csv, errorlog, error, run, prev>>

\* WriteCsv that also writes what was accumulated when the call has failed
WriteCsvAlsoOnFailure ==
    /\ pc \in {"returned", "failed"}
    /\ csv' = IF pc = "returned" THEN result ELSE Table(df_all)
    /\ pc' = "exit"
    /\ UNCHANGED <<huek, catchments, toolname, reprojected, i, catchment, dfs,
                   df, df_all, result, errorlog, error, run, prev>>

\* hydrogeology_attributes.to_csv("/out/hydrogeology_attributes.csv")
WriteCsv ==
    /\ pc = "returned"
    /\ csv' = result
    /\ pc' = "exit"
    /\ UNCHANGED <<huek, catchments, toolname, reprojected, i, catchment, dfs,
                   df, df_all, result, errorlog, error, run, prev>>

\* how a call ended: returned with its table, or failed at catchment i
Outcome ==
    [status |-> pc, at |-> IF pc = "failed" THEN i ELSE 0, error |-> error,
     table |-> result]

\* The aggregator is called again on the same base map and catchment set.
\* The locals of the ended call are dead: no action reads one of them
\* before the new call assigns it.
CallAgain ==
    /\ pc \in {"returned", "failed"}
    /\ run < MaxRuns
    /\ prev' = Outcome
    /\ run' = run + 1
    /\ result' = NoTable
    /\ error' = NoError
    /\ pc' = "call"
    /\ UNCHANGED <<huek, catchments, toolname, reprojected, i, catchment, dfs,
                   df, df_all, csv, errorlog>>

Next ==
    \/ RunNoTool
    \/ RunInvalid
    \/ RunTool
    \/ Begin
    \/ LoopNext
    \/ extract_ch_from_huek
    \/ extract_kf_from_huek
    \/ extract_ha_from_huek
    \/ extract_ga_from_huek
    \/ extract_vf_from_huek
    \/ extract_gc_from_huek
    \/ Merge
    \/ CollapseWaterbody
    \/ CollapseNoData
    \/ AppendRow
    \/ RoundAndReturn
    \/ WriteCsv
    \/ CallAgain

Spec == Init /\ [][Next]_vars

---------------------------------------------------------------------------
(* Vocabulary of the properties *)

\* the statements of one iteration, in the order they run
IterPoints == <<"ch", "kf", "ha", "ga", "vf", "gc", "concat", "waterbody", "no_data", "append">>

PosOf(point) == CHOOSE k \in 1..Len(IterPoints) : IterPoints[k] = point

\* the statement the iteration is at, or was at when it raised
Point == IF pc = "failed" THEN error.at ELSE pc

InIteration == Point \in {IterPoints[k] : k \in 1..Len(IterPoints)}

\* the extractor of f has just returned its row
Passed(f) == pc = IterPoints[PosOf(f) + 1]

\* the check of the extractor of f has raised in this iteration
Raised(f) == pc = "failed" /\ error.at = f

\* abs(x - 100) > c / 100,  = c / 100,  < c / 100
DevMoreThan(x, c) == Abs(100 * x.d - x.n) * 100 > c * x.d

DevLessThan(x, c) == Abs(100 * x.d - x.n) * 100 < c * x.d

\* the polygon of the base map that covers cell c, if any
Covering(map, c) == {k \in 1..Len(map) : c \in map[k].geometry}

\* area of the part of geometry on which attribute bez of the map is in labels
AreaWhere(map, geometry, bez, labels) ==
    Area({c \in geometry : \E k \in Covering(map, c) : map[k][bez] \in labels})

\* area of the part of geometry the base map covers
CoveredArea(map, geometry) ==
    Area({c \in geometry : Covering(map, c) /= {}})

LabelsOf(f) == {ColumnsOf(f)[k].label : k \in 1..Len(ColumnsOf(f))}

\* area of the part of geometry whose label of field f is in no column
UnknownArea(f, map, geometry) ==
    LET known == LabelsOf(f)
    IN Area({c \in geometry : \E k \in Covering(map, c) : map[k][BezOf(f)] \notin known})

NamesOf(f) == {ColumnsOf(f)[k].name : k \in 1..Len(ColumnsOf(f))}

SharedNames == {<<"waterbody", "_perc">>, <<"no_data", "_perc">>}

\* the columns of a row of the output table that belong to field f
FieldCols(row, f) ==
    SelectSeq(row.cols, LAMBDA e : e.name \in NamesOf(f) \cup SharedNames)

---------------------------------------------------------------------------
(* C1 *)

\* C1 as stated: in every row of the returned table and for each of the six
\* fields, the columns of the field plus waterbody_perc and no_data_perc sum
\* to 100 within 0.1.
C1_SumWithinTenth ==
    result /= NoTable =>
        \A k \in 1..Len(result[1]) : \A f \in Fields :
            ~DevMoreThan(SumCols(FieldCols(result[1][k], f)), 10)

\* C1 amended: in every row of the returned table and for each of the six
\* fields, the columns of the field plus waterbody_perc and no_data_perc are
\* as many as the categories of the field and sum to 100 within 0.22 (the
\* check lets a deficit below 0.15 pass, rounding adds at most 0.005 per
\* column), and within 0.1 when every clipped polygon of the catchment has
\* a label of the vocabulary of the field.
C1_SumWithinTolerance ==
    result /= NoTable =>
        \A k \in 1..Len(result[1]) : \A f \in Fields :
            LET total == SumCols(FieldCols(result[1][k], f))
            IN /\ Len(FieldCols(result[1][k], f)) = Len(ColumnsOf(f))
               /\ ~DevMoreThan(total, 22)
               /\ UnknownArea(f, huek, catchments[k].geometry) = 0
                     => ~DevMoreThan(total, 10)

\* a table of two rows is returned, one of them with a sum that is not 100
C1_Witness ==
    /\ result /= NoTable
    /\ Len(result[1]) = 2
    /\ \E k \in 1..2 : \E f \in Fields :
          DevMoreThan(SumCols(FieldCols(result[1][k], f)), 0)

---------------------------------------------------------------------------
(* C2 *)

\* the sum of all the columns of the row the extractor of f builds
FullSum(f) == SumCols(ExtractRow(f, huek, catchment).cols)

\* C2 as stated: the check of each extractor raises whenever the sum of the
\* columns of its row deviates from 100 by more than 0.1, and passes
\* whenever it deviates by at most 0.1.
C2_ToleranceTenth ==
    \A f \in Fields : (Raised(f) \/ Passed(f)) =>
        LET total == FullSum(f)
        IN /\ DevMoreThan(total, 10) => Raised(f)
           /\ ~DevMoreThan(total, 10) => Passed(f)

\* C2 amended: the check of each extractor, given the prefix the extractor
\* passes, sums every column of the row; it raises whenever that sum
\* deviates from 100 by more than 0.15 and passes whenever it deviates by
\* less than 0.15.
C2_ToleranceOfAssertAlmostEqual ==
    \A f \in Fields : (Raised(f) \/ Passed(f)) =>
        LET total == FullSum(f)
        IN /\ DevMoreThan(total, 15) => Raised(f)
           /\ DevLessThan(total, 15) => Passed(f)
           /\ Raised(f) => error.category = PrefixOf(f) /\ error.sum = total
           /\ Passed(f) => SumCategory(dfs[f].cols, PrefixOf(f)) = total

\* the last extractor raises on a row with a sum between 0 and 99.85
C2_Witness ==
    /\ Raised("gc")
    /\ DevMoreThan(error.sum, 15)
    /\ error.sum /= Zero

---------------------------------------------------------------------------
(* C7 *)

\* C7 as stated: whenever a clipped polygon of positive area has a label of
\* field f outside the vocabulary, the check of f raises: the extractor of
\* f never returns, and no row of such a catchment is in the table.
C7_UnknownAlwaysRaises ==
    /\ \A f \in Fields :
          Passed(f) => UnknownArea(f, huek, catchment.geometry) = 0
    /\ \A k \in 1..Len(df_all) : \A f \in Fields :
          UnknownArea(f, huek, catchments[k].geometry) = 0

\* C7 amended: the area with a label outside the vocabulary is counted in
\* the denominator and in no column, so the columns of f sum to 100 less the
\* share of that area; the check of f raises, and no row of the catchment
\* reaches the table, when the share is more than 0.15 percent of the clipped
\* area, and it passes when the share is less than 0.15 percent.
C7_UnknownRaisesAboveTolerance ==
    /\ \A f \in Fields : (Raised(f) \/ Passed(f)) =>
          LET u == UnknownArea(f, huek, catchment.geometry)
              t == CoveredArea(huek, catchment.geometry)
              total == IF Raised(f) THEN error.sum ELSE SumCols(dfs[f].cols)
          IN /\ t > 0 => total = Frac(100 * (t - u), t)
             /\ 100 * 100 * u > 15 * t => Raised(f)
             /\ 100 * 100 * u < 15 * t => Passed(f)
    /\ \A k \in 1..Len(df_all) : \A f \in Fields :
          100 * 100 * UnknownArea(f, huek, catchments[k].geometry)
              <= 15 * CoveredArea(huek, catchments[k].geometry)

\* an extractor raises on a catchment of which a part, not all, has a label
\* outside the vocabulary
C7_Witness ==
    \E f \in Fields :
        /\ Raised(f)
        /\ UnknownArea(f, huek, catchment.geometry) > 0
        /\ UnknownArea(f, huek, catchment.geometry)
              < CoveredArea(huek, catchment.geometry)

---------------------------------------------------------------------------
(* C3 *)

\* the values of the per-field columns of sub ("waterbody" or "no_data") in
\* the six rows of the iteration
SentinelValues(sub) ==
    UNION {ValueSet(ColsContaining(dfs[f].cols, sub)) : f \in Fields}

\* the names of the twelve per-field sentinel columns
SentinelNames ==
    UNION {{n \in NamesOf(f) : Contains(n, "waterbody") \/ Contains(n, "no_data")} :
              f \in Fields}

\* the cells of the columns of the row called name
CellsOf(row, name) == SelectSeq(row.cols, LAMBDA e : e.name = name)

\* the row has one waterbody_perc, one no_data_perc and no per-field
\* sentinel column
Collapsed(row) ==
    /\ Len(CellsOf(row, <<"waterbody", "_perc">>)) = 1
    /\ Len(CellsOf(row, <<"no_data", "_perc">>)) = 1
    /\ \A k \in 1..Len(row.cols) : row.cols[k].name \notin SentinelNames

\* the statement at point has run in this iteration, and raised or not
Acted(point) ==
    \/ pc = "failed" /\ error.at = point
    \/ InIteration /\ PosOf(Point) > PosOf(point)

\* C3: the run halts at the collapse of the waterbody (no-data) columns,
\* before a row of the catchment is appended, iff two of the six values
\* differ; otherwise the merged row holds one waterbody_perc and one
\* no_data_perc, each equal to all six values of the extractors, and none of
\* the twelve per-field columns; so does every row of the accumulator.
C3_CollapseOnlyIdentical ==
    /\ Acted("waterbody") =>
          (Cardinality(SentinelValues("waterbody")) > 1
              <=> (pc = "failed" /\ error.at = "waterbody"))
    /\ Acted("no_data") =>
          (Cardinality(SentinelValues("no_data")) > 1
              <=> (pc = "failed" /\ error.at = "no_data"))
    /\ (pc = "failed" /\ error.at \in {"waterbody", "no_data"}) =>
          /\ Len(df_all) = i - 1
          /\ \A k \in 1..Len(df_all) : df_all[k].gauge_id /= catchment.id
    /\ pc = "append" =>
          /\ Collapsed(df)
          /\ SentinelValues("waterbody") = {CellsOf(df, <<"waterbody", "_perc">>)[1].val}
          /\ SentinelValues("no_data") = {CellsOf(df, <<"no_data", "_perc">>)[1].val}
    /\ pc \in {"loop", "round"} => \A k \in 1..Len(df_all) : Collapsed(df_all[k])

\* the waterbody columns were collapsed and the no-data columns differ
C3_Witness ==
    /\ pc = "failed"
    /\ error.at = "no_data"
    /\ Cardinality(SentinelValues("waterbody")) = 1
    /\ Len(CellsOf(df, <<"waterbody", "_perc">>)) = 1

---------------------------------------------------------------------------
(* C4 *)

\* a check or a collapse assertion fails for catchment c: a check, when the
\* clipped area is 0 or at least 0.15 percent of it has a label outside the
\* vocabulary of a field; a collapse assertion, when the waterbody (no-data)
\* areas of two fields differ
CatchmentFails(c) ==
    LET t == CoveredArea(huek, c.geometry)
    IN \/ t = 0
       \/ \E f \in Fields : 100 * 100 * UnknownArea(f, huek, c.geometry) >= 15 * t
       \/ \E f \in Fields : \E label \in {Gewaesser, KeineAngaben} :
             AreaWhere(huek, c.geometry, BezOf(f), {label})
                /= AreaWhere(huek, c.geometry, "kf_bez", {label})

BadCatchments == {k \in 1..Len(catchments) : CatchmentFails(catchments[k])}

FirstBad(bad) == CHOOSE k \in bad : \A j \in bad : k <= j

\* C4: if a check or a collapse assertion fails for a catchment of the set,
\* no table is returned and no csv is written; the loop does not go beyond
\* the first such catchment and the rows of the catchments before it stay in
\* the accumulator; a run that fails has failed at the first such catchment.
C4_BadCatchmentAborts ==
    LET bad == BadCatchments
    IN /\ bad /= {} =>
            /\ result = NoTable
            /\ csv = NoTable
            /\ pc \notin {"returned", "round"}
            /\ pc = "exit" => toolname /= "hydrogeology_attributes_huek"
            /\ i <= FirstBad(bad)
            /\ Len(df_all) < FirstBad(bad)
       /\ pc = "failed" =>
            /\ bad /= {}
            /\ i = FirstBad(bad)
            /\ Len(df_all) = i - 1

\* the run has failed at the second catchment, the row of the first one is
\* in the accumulator
C4_Witness ==
    /\ pc = "failed"
    /\ i = 2
    /\ Len(df_all) = 1
    /\ toolname = "hydrogeology_attributes_huek"

---------------------------------------------------------------------------
(* C5 *)

ZeroOverlap(c) == CoveredArea(huek, c.geometry) = 0

\* the identifiers of the rows of an optional table
RowIds(t) == IF t = NoTable THEN {} ELSE {t[1][k].gauge_id : k \in 1..Len(t[1])}

\* C5: the run halts in the first extractor on a catchment that has no
\* overlap with the base map, and no row of such a catchment is in the
\* accumulator, the returned table or the csv.
C5_ZeroOverlapHalts ==
    /\ (InIteration /\ ZeroOverlap(catchment)) => Point = "ch"
    /\ \A k \in 1..Len(catchments) : ZeroOverlap(catchments[k]) =>
          /\ catchments[k].id \notin RowIds(result) \cup RowIds(csv)
          /\ pc /= "call" =>
                \A j \in 1..Len(df_all) : df_all[j].gauge_id /= catchments[k].id

\* the first extractor has raised on a catchment without overlap, the
\* second of the set, on a sum of 0
C5_Witness ==
    /\ pc = "failed"
    /\ error.at = "ch"
    /\ error.sum = Zero
    /\ ZeroOverlap(catchment)
    /\ Len(df_all) = 1

---------------------------------------------------------------------------
(* C6 *)

\* 100 x (area of the clipped polygons with label) / (area of all clipped
\* polygons), from the cells
CellPerc(c, f, label) ==
    Frac(100 * AreaWhere(huek, c.geometry, BezOf(f), {label}),
         CoveredArea(huek, c.geometry))

\* the polygons of the base map that contain the catchment
Containing(c) == {p \in 1..Len(huek) : c.geometry \subseteq huek[p].geometry}

\* C6: the row an extractor returns has, for every category v of its field,
\* the column of v at 100 x area(v) / area(all); a catchment inside one
\* polygon of category v has 100 for v and 0 for the other categories.
C6_AreaPercentage ==
    \A f \in Fields : Passed(f) =>
        /\ CoveredArea(huek, catchment.geometry) > 0
        /\ dfs[f].gauge_id = catchment.id
        /\ Len(dfs[f].cols) = Len(ColumnsOf(f))
        /\ \A k \in 1..Len(ColumnsOf(f)) :
              /\ dfs[f].cols[k].name = ColumnsOf(f)[k].name
              /\ dfs[f].cols[k].val = CellPerc(catchment, f, ColumnsOf(f)[k].label)
              /\ \A p \in Containing(catchment) :
                    dfs[f].cols[k].val =
                        IF huek[p][BezOf(f)] = ColumnsOf(f)[k].label
                        THEN Frac(100, 1) ELSE Zero

\* the last extractor has returned on a catchment inside one polygon
C6_Witness ==
    /\ Passed("gc")
    /\ Containing(catchment) /= {}

---------------------------------------------------------------------------
(* C8 *)

\* the field and the label a column of the output table is computed from
SourceOf(name) ==
    IF name = <<"waterbody", "_perc">> THEN [f |-> "kf", label |-> Gewaesser]
    ELSE IF name = <<"no_data", "_perc">> THEN [f |-> "kf", label |-> KeineAngaben]
    ELSE LET f == CHOOSE g \in Fields : name \in NamesOf(g)
             k == CHOOSE j \in 1..Len(ColumnsOf(f)) : ColumnsOf(f)[j].name = name
         IN [f |-> f, label |-> ColumnsOf(f)[k].label]

\* the number of columns of the output table
NColumns == Cardinality(UNION {NamesOf(f) : f \in Fields}) - Cardinality(SentinelNames) + 2

\* C8: a returned table has one row per catchment, the k-th row indexed by
\* the identifier of the k-th catchment and holding, in each column, the
\* rounded percentage computed from the k-th catchment alone.
C8_RowPerCatchment ==
    result /= NoTable =>
        /\ Len(result[1]) = Len(catchments)
        /\ \A k \in 1..Len(result[1]) :
              LET row == result[1][k]
              IN /\ row.gauge_id = catchments[k].id
                 /\ Len(row.cols) = NColumns
                 /\ \A j \in 1..Len(row.cols) :
                       LET src == SourceOf(row.cols[j].name)
                       IN row.cols[j].val =
                             Round(CellPerc(catchments[k], src.f, src.label), Decimals)

\* a table of two different rows is returned
C8_Witness ==
    /\ result /= NoTable
    /\ Len(result[1]) = 2
    /\ result[1][1].cols /= result[1][2].cols

---------------------------------------------------------------------------
(* C9 *)

\* C9: a second call on the same base map and catchment set ends as the
\* first one did: failed at the same catchment with the same error, or
\* returned an equal table.
C9_Idempotent ==
    (run > 1 /\ pc \in {"returned", "failed"}) => Outcome = prev

\* the second call has returned a table of two rows
C9_Witness ==
    /\ run = 2
    /\ pc = "returned"
    /\ Len(result[1]) = 2

---------------------------------------------------------------------------
(* C10 *)

InLoop == pc = "loop" \/ pc \in {IterPoints[k] : k \in 1..Len(IterPoints)}

\* C10: in the loop the accumulator starts empty and changes only at the
\* end of an iteration, by one row appended after the six extractions, the
\* six checks and the two collapses of the catchment have succeeded; the
\* rows before it stay as they are; no step changes the base map or the
\* catchment set.
C10_AccumulatorOnlyGrows ==
    [][ /\ huek' = huek
        /\ catchments' = catchments
        /\ pc = "call" => df_all' = <<>>
        /\ (InLoop /\ pc /= "append") => df_all' = df_all
        /\ pc = "append" =>
              /\ Len(df_all') = Len(df_all) + 1
              /\ SubSeq(df_all', 1, Len(df_all)) = df_all
              /\ df_all'[Len(df_all')].gauge_id = catchment.id
              /\ Len(df_all') = i
              /\ pc' = "loop"
              /\ \A f \in Fields :
                    /\ dfs[f] = ExtractRow(f, huek, catchment)
                    /\ ~ExtractRaises(f, dfs[f])
              /\ Cardinality(SentinelValues("waterbody")) = 1
              /\ Cardinality(SentinelValues("no_data")) = 1
      ]_vars

\* the second row is about to be appended
C10_Witness ==
    /\ pc = "append"
    /\ Len(df_all) = 1

====
